---- MODULE Spec2Model ----
(***************************************************************************)
(* bower-npm-resolver: the resolver adapter (src/src/resolver.js) and the  *)
(* npm wrapper module (src/unnamed/part_000).                              *)
(*                                                                         *)
(* The specifications share the variables:                                 *)
(*   SpecFetch     the promise chain of resolver.fetch, NumFetch calls     *)
(*   SpecDownload  one call of downloadTarball and its stream events       *)
(*   SpecPure      match, over every short string                          *)
(*   SpecReleases  one call of releases: npm view, unwrapping, mapping     *)
(*   SpecRegistry  a releases call and a downloadTarball call together     *)
(*   SpecSource    the package name and target fetch and releases use      *)
(*   SpecNames     normalizePkgName over package names                     *)
(* Strings the code inspects character by character are sequences of       *)
(* one-character strings.                                                  *)
(***************************************************************************)
EXTENDS Integers, Sequences, FiniteSets, TLC

VARIABLES
    \* ---- resolver.fetch ----
    npmUtils,      \* names exported by the module bound to './npm-utils'
    dirs,          \* temporary directories that exist on disk
    nextDir,       \* tmp.dirSync: next fresh directory
    pc,            \* per invocation: position in the promise chain
    cachedArg,     \* per invocation: the `cached` argument
    tmpTar,        \* per invocation: directory of the tgz (0: none)
    tmpPackage,    \* per invocation: extraction directory (0: none)
    chain,         \* per invocation: value travelling down the chain
    ret,           \* per invocation: what the call returned synchronously
    promise,       \* per invocation: state of the promise fetch returned
    started,       \* per invocation: collaborator calls started
    failedAt,      \* per invocation: step that failed, and its error
    uses,          \* <<invocation, operation, directory>> performed
    \* ---- downloadTarball ----
    dl,            \* the call's state (a record, see DlInit)
    fs,            \* files of the target directory: path -> content
    \* ---- pure functions ----
    src,           \* input string
    arg,           \* second input (endpoint.target), where there is one
    out,           \* result of the function applied to it
    \* ---- releases ----
    rel            \* the call's state (a record, see RelStart)

fvars == <<npmUtils, dirs, nextDir, pc, cachedArg, tmpTar, tmpPackage, chain,
           ret, promise, started, failedAt, uses>>
dvars == <<dl, fs>>
pvars == <<src, arg, out>>
rvars == <<rel>>
vars == <<fvars, dvars, pvars, rvars>>

(***************************************************************************)
(* Bounds                                                                  *)
(***************************************************************************)
NumFetch == 2

Inv == 1..NumFetch

(***************************************************************************)
(* resolver.js: fetch                                                      *)
(***************************************************************************)

\* module.exports of the npm wrapper: releases and downloadTarball.
NpmUtilsExports == {"releases", "downloadTarball"}

\* Identifiers visible in the handlers of fetch: the module's requires, the
\* factory's locals, fetch's parameters and locals.
FetchScope == {"tmp", "path", "npmUtils", "download", "extract", "bower",
               "extractPackageName", "endpoint", "cached", "pkg", "tmpTar",
               "tmpPackage"}

\* The `cached` argument: undefined, or an object whose version may be falsy.
CachedArgs == { [defined |-> FALSE, version |-> ""],
                [defined |-> TRUE,  version |-> ""],
                [defined |-> TRUE,  version |-> "1.0.0"] }

TarballErrors  == {"ViewError"}
DownloadErrors == {"DownloadError"}
ExtractErrors  == {"ExtractionError", "EACCES"}

NoPath == [dir |-> 0, sub |-> ""]

\* path.join(dir, sub)
PathJoin(d, s) == [dir |-> d, sub |-> s]

Fulfilled(kind, path, flag) ==
    [state |-> "fulfilled", kind |-> kind, path |-> path,
     removeIgnores |-> flag, error |-> "none"]

Rejected(e) ==
    [state |-> "rejected", kind |-> "error", path |-> NoPath,
     removeIgnores |-> FALSE, error |-> e]

NoValue ==
    [state |-> "none", kind |-> "none", path |-> NoPath,
     removeIgnores |-> FALSE, error |-> "none"]

\* `cached && cached.version`
CacheHitIgnoresVersion(cached) == cached.defined

CacheHit(cached) == cached.defined /\ cached.version # ""

\* The value of the third then-handler: {tempPath, removeIgnores}.
ThenResultNoPackage(dir) == Fulfilled("object", PathJoin(dir, ""), TRUE)

ThenResult(dir) == Fulfilled("object", PathJoin(dir, "package"), TRUE)

\* The catch handler: `tmpDir.removeCallback()`.  tmpDir is no identifier of
\* the scope, so evaluating it throws a ReferenceError and the handler's
\* promise is rejected with it; were it bound, the handler would return
\* undefined and its promise would be fulfilled.
CatchValue ==
    IF "tmpDir" \in FetchScope
      THEN Fulfilled("undefined", NoPath, FALSE)
      ELSE Rejected("ReferenceError")

\* Directories the catch handler removes.
CatchRemoves(i) == IF "tmpDir" \in FetchScope THEN {tmpPackage[i]} ELSE {}

\* Directories the finally handler removes: tmpTar.removeCallback().
FinallyRemovesBoth(i) == {tmpTar[i], tmpPackage[i]}

FinallyRemovesLatest(i) == {nextDir - 2}

FinallyRemoves(i) == {tmpTar[i]}

\* The module bound to './npm-utils' is the npm wrapper, which exports no
\* `tarball`, or a module that also exports the `tarball` fetch calls.
FetchInit ==
    /\ npmUtils \in {NpmUtilsExports, NpmUtilsExports \cup {"tarball"}}
    /\ dirs = {}
    /\ nextDir = 1
    /\ pc = [i \in Inv |-> "idle"]
    /\ cachedArg = [i \in Inv |-> [defined |-> FALSE, version |-> ""]]
    /\ tmpTar = [i \in Inv |-> 0]
    /\ tmpPackage = [i \in Inv |-> 0]
    /\ chain = [i \in Inv |-> NoValue]
    /\ ret = [i \in Inv |-> "none"]
    /\ promise = [i \in Inv |-> NoValue]
    /\ started = [i \in Inv |-> {}]
    /\ failedAt = [i \in Inv |-> [step |-> "none", error |-> "none"]]
    /\ uses = {}

\* fetch(endpoint, cached), lines 68-86: the cache test, the two
\* tmp.dirSync calls and the call npmUtils.tarball(pkg, endpoint.target).
\* Calling a property the module does not export throws a TypeError out of
\* fetch, before the chain is built.  ret is what the call did: "undefined"
\* (returned nothing), "promise" (returned the chain's promise) or "throw".
Fetch(i, cached) ==
    /\ pc[i] = "idle"
    /\ cachedArg' = [cachedArg EXCEPT ![i] = cached]
    /\ IF CacheHit(cached)
         THEN /\ pc' = [pc EXCEPT ![i] = "returned"]
              /\ ret' = [ret EXCEPT ![i] = "undefined"]
              /\ UNCHANGED <<dirs, nextDir, tmpTar, tmpPackage, started>>
         ELSE /\ dirs' = dirs \cup {nextDir, nextDir + 1}
              /\ nextDir' = nextDir + 2
              /\ tmpTar' = [tmpTar EXCEPT ![i] = nextDir]
              /\ tmpPackage' = [tmpPackage EXCEPT ![i] = nextDir + 1]
              /\ IF "tarball" \in npmUtils
                   THEN /\ pc' = [pc EXCEPT ![i] = "tarball"]
                        /\ ret' = [ret EXCEPT ![i] = "promise"]
                        /\ started' = [started EXCEPT ![i] = {"tarball"}]
                   ELSE /\ pc' = [pc EXCEPT ![i] = "thrown"]
                        /\ ret' = [ret EXCEPT ![i] = "throw"]
                        /\ UNCHANGED started
    /\ failedAt' = [failedAt EXCEPT ![i] =
                      IF ~CacheHit(cached) /\ "tarball" \notin npmUtils
                        THEN [step |-> "tarball", error |-> "TypeError"]
                        ELSE @]
    /\ promise' = [promise EXCEPT ![i] =
                     IF ~CacheHit(cached) /\ "tarball" \in npmUtils
                       THEN [NoValue EXCEPT !.state = "pending"]
                       ELSE NoValue]
    /\ UNCHANGED <<npmUtils, chain, uses, dvars, pvars, rvars>>

\* npmUtils.tarball settles: with the tarball URL, or with an error.
TarballResolves(i) ==
    /\ pc[i] = "tarball"
    /\ pc' = [pc EXCEPT ![i] = "thenDownload"]
    /\ chain' = [chain EXCEPT ![i] = Fulfilled("url", NoPath, FALSE)]
    /\ UNCHANGED <<npmUtils, dirs, nextDir, cachedArg, tmpTar, tmpPackage,
                   ret, promise, started, failedAt, uses,
                   dvars, pvars, rvars>>

TarballRejects(i, e) ==
    /\ pc[i] = "tarball"
    /\ pc' = [pc EXCEPT ![i] = "catch"]
    /\ chain' = [chain EXCEPT ![i] = Rejected(e)]
    /\ failedAt' = [failedAt EXCEPT ![i] = [step |-> "tarball", error |-> e]]
    /\ UNCHANGED <<npmUtils, dirs, nextDir, cachedArg, tmpTar, tmpPackage,
                   ret, promise, started, uses,
                   dvars, pvars, rvars>>

\* First then-handler, lines 89-91: download.fetch(url, tmpTar.name).
ThenDownload(i) ==
    /\ pc[i] = "thenDownload"
    /\ pc' = [pc EXCEPT ![i] = "download"]
    /\ started' = [started EXCEPT ![i] = @ \cup {"download"}]
    /\ uses' = uses \cup {<<i, "download", tmpTar[i]>>}
    /\ UNCHANGED <<npmUtils, dirs, nextDir, cachedArg, tmpTar, tmpPackage,
                   chain, ret, promise, failedAt,
                   dvars, pvars, rvars>>

\* download.fetch settles: with the path of the tgz in the directory it was
\* given, or with an error.
DownloadResolves(i) ==
    /\ pc[i] = "download"
    /\ pc' = [pc EXCEPT ![i] = "thenExtract"]
    /\ chain' = [chain EXCEPT ![i] =
                   Fulfilled("file", PathJoin(tmpTar[i], "tgz"), FALSE)]
    /\ UNCHANGED <<npmUtils, dirs, nextDir, cachedArg, tmpTar, tmpPackage,
                   ret, promise, started, failedAt, uses,
                   dvars, pvars, rvars>>

DownloadRejects(i, e) ==
    /\ pc[i] = "download"
    /\ pc' = [pc EXCEPT ![i] = "catch"]
    /\ chain' = [chain EXCEPT ![i] = Rejected(e)]
    /\ failedAt' = [failedAt EXCEPT ![i] = [step |-> "download", error |-> e]]
    /\ UNCHANGED <<npmUtils, dirs, nextDir, cachedArg, tmpTar, tmpPackage,
                   ret, promise, started, uses,
                   dvars, pvars, rvars>>

\* Second then-handler, lines 94-96: extract.tgz(tarball, tmpPackage.name).
ThenExtract(i) ==
    /\ pc[i] = "thenExtract"
    /\ pc' = [pc EXCEPT ![i] = "extract"]
    /\ started' = [started EXCEPT ![i] = @ \cup {"extract"}]
    /\ uses' = uses \cup {<<i, "read", chain[i].path.dir>>,
                          <<i, "extract", tmpPackage[i]>>}
    /\ UNCHANGED <<npmUtils, dirs, nextDir, cachedArg, tmpTar, tmpPackage,
                   chain, ret, promise, failedAt,
                   dvars, pvars, rvars>>

\* extract.tgz settles: with the directory it extracted into, or with an
\* error.
ExtractResolves(i) ==
    /\ pc[i] = "extract"
    /\ pc' = [pc EXCEPT ![i] = "thenResult"]
    /\ chain' = [chain EXCEPT ![i] =
                   Fulfilled("dir", PathJoin(tmpPackage[i], ""), FALSE)]
    /\ UNCHANGED <<npmUtils, dirs, nextDir, cachedArg, tmpTar, tmpPackage,
                   ret, promise, started, failedAt, uses,
                   dvars, pvars, rvars>>

ExtractRejects(i, e) ==
    /\ pc[i] = "extract"
    /\ pc' = [pc EXCEPT ![i] = "catch"]
    /\ chain' = [chain EXCEPT ![i] = Rejected(e)]
    /\ failedAt' = [failedAt EXCEPT ![i] = [step |-> "extract", error |-> e]]
    /\ UNCHANGED <<npmUtils, dirs, nextDir, cachedArg, tmpTar, tmpPackage,
                   ret, promise, started, uses,
                   dvars, pvars, rvars>>

\* Third then-handler, lines 99-104.  A fulfilled promise skips the catch
\* handler, so the finally handler is next.
ThenReturn(i) ==
    /\ pc[i] = "thenResult"
    /\ pc' = [pc EXCEPT ![i] = "finally"]
    /\ chain' = [chain EXCEPT ![i] = ThenResult(chain[i].path.dir)]
    /\ UNCHANGED <<npmUtils, dirs, nextDir, cachedArg, tmpTar, tmpPackage,
                   ret, promise, started, failedAt, uses,
                   dvars, pvars, rvars>>

\* The catch handler, lines 107-109.
Catch(i) ==
    /\ pc[i] = "catch"
    /\ pc' = [pc EXCEPT ![i] = "finally"]
    /\ chain' = [chain EXCEPT ![i] = CatchValue]
    /\ dirs' = dirs \ CatchRemoves(i)
    /\ uses' = uses \cup {<<i, "remove", d>> : d \in CatchRemoves(i)}
    /\ UNCHANGED <<npmUtils, nextDir, cachedArg, tmpTar, tmpPackage,
                   ret, promise, started, failedAt,
                   dvars, pvars, rvars>>

\* The finally handler, lines 112-114: it removes the directory of the tgz
\* and hands on the state of the promise it was attached to.
FinallyNotChained(i) ==
    /\ pc[i] \in {"download", "extract", "finally"}
    /\ pc' = [pc EXCEPT ![i] = "settled"]
    /\ dirs' = dirs \ FinallyRemoves(i)
    /\ uses' = uses \cup {<<i, "remove", d>> : d \in FinallyRemoves(i)}
    /\ promise' = [promise EXCEPT ![i] = chain[i]]
    /\ UNCHANGED <<npmUtils, nextDir, cachedArg, tmpTar, tmpPackage,
                   chain, ret, started, failedAt,
                   dvars, pvars, rvars>>

Finally(i) ==
    /\ pc[i] = "finally"
    /\ pc' = [pc EXCEPT ![i] = "settled"]
    /\ dirs' = dirs \ FinallyRemoves(i)
    /\ uses' = uses \cup {<<i, "remove", d>> : d \in FinallyRemoves(i)}
    /\ promise' = [promise EXCEPT ![i] = chain[i]]
    /\ UNCHANGED <<npmUtils, nextDir, cachedArg, tmpTar, tmpPackage,
                   chain, ret, started, failedAt,
                   dvars, pvars, rvars>>

(***************************************************************************)
(* The npm wrapper (part_000): downloadTarball                             *)
(***************************************************************************)

V1 == <<"1", ".", "0">>
V2 == <<"2", ".", "0">>
TagLatest == <<"l", "a", "t", "e", "s", "t">>

\* Arguments of the modelled calls.
PkgNames == { <<"p", "k", "g">>, <<"@", "s", "/", "p">> }
VersionSpecs == {V1, V2, TagLatest}
TargetDir == "dir"

\* Major version of the npm that npm.load reports (meta.version).
NpmVersions == {4, 5}

\* semver.lt(meta.version, '5.0.0')
LegacyBelow == 5
IsLegacyNpm(v) == v < LegacyBelow

LoadErrors     == {"LoadError"}
CacheAddErrors == {"CacheAddError"}
ManifestErrors == {"ManifestError"}
StreamErrors   == {"StreamError"}

\* `${pkg}@${version}`
PkgId(pkg, version) == pkg \o <<"@">> \o version

\* The registry client reads a package id as name@spec, splitting at the last
\* '@' that is not the first character (a scope starts with '@').
LastAt(id) ==
    LET ks == {k \in 2..Len(id) : id[k] = "@"}
    IN  IF ks = {} THEN 0 ELSE CHOOSE k \in ks : \A j \in ks : j <= k

ParseId(id) ==
    IF LastAt(id) = 0
      THEN [name |-> id, spec |-> TagLatest]
      ELSE [name |-> SubSeq(id, 1, LastAt(id) - 1),
            spec |-> SubSeq(id, LastAt(id) + 1, Len(id))]

\* What the registry answers for an id: the manifest of the version the
\* spec selects (a dist-tag selects the version it points at).
RegistryLatest == V2
RegistryInfo(id) ==
    [integrity |-> <<"sha", ParseId(id).name,
                     IF ParseId(id).spec = TagLatest
                       THEN RegistryLatest ELSE ParseId(id).spec>>,
     manifest  |-> [name    |-> ParseId(id).name,
                    version |-> IF ParseId(id).spec = TagLatest
                                  THEN RegistryLatest ELSE ParseId(id).spec]]

NoInfo == [integrity |-> <<>>, manifest |-> [name |-> <<>>, version |-> <<>>]]

\* What npm.commands.cache.add(pkg) resolves with on the modern path: the
\* info of the package, or nothing.
CacheAddInfo(id, withInfo) == IF withInfo THEN RegistryInfo(id) ELSE NoInfo

\* `info ? info : getManifest(pkg)`, line 171: the manifest is fetched when
\* cache.add returned nothing.
NeedsManifestAlways(info) == TRUE

NeedsManifest(info) == info = NoInfo

\* s.replace(/\//g, '-')
RECURSIVE ReplaceSlashes(_)
ReplaceSlashes(s) ==
    IF s = <<>> THEN <<>>
    ELSE <<IF Head(s) = "/" THEN "-" ELSE Head(s)>> \o ReplaceSlashes(Tail(s))

\* normalizePkgName
NormalizeKeepsAt(name) ==
    IF Len(name) > 0 /\ name[1] = "@" THEN ReplaceSlashes(name) ELSE name

NormalizeKeepsSlashes(name) ==
    IF Len(name) > 0 /\ name[1] = "@" THEN Tail(name) ELSE name

normalizePkgName(name) ==
    IF Len(name) > 0 /\ name[1] = "@"
      THEN ReplaceSlashes(Tail(name))
      ELSE name

\* `${name}-${result.version}.tgz`, joined to the target directory.
OutputFile(dir, name, version) ==
    [dir  |-> dir,
     file |-> normalizePkgName(name) \o <<"-">> \o version
                \o <<".", "t", "g", "z">>]

NoFile == [dir |-> "", file |-> <<>>]

\* writeStreamAtomic writes to a temporary file beside the target.
TmpFile(target) == [dir |-> target.dir, file |-> target.file \o <<"~">>]

\* Q's deferred: the first resolve or reject settles it, later ones are
\* ignored.
NoDeferred == [state |-> "none", path |-> NoFile, error |-> "none"]
Pending == [state |-> "pending", path |-> NoFile, error |-> "none"]

Reject(d, e) ==
    IF d.state = "pending"
      THEN [state |-> "rejected", path |-> NoFile, error |-> e]
      ELSE d

ResolveOverwrites(d, p) == [state |-> "resolved", path |-> p, error |-> "none"]

Resolve(d, p) ==
    IF d.state = "pending"
      THEN [state |-> "resolved", path |-> p, error |-> "none"]
      ELSE d

\* inputStream.on('error', ...), lines 271-273
OnInputErrorIgnored(d, e) == d

OnInputError(d, e) == Reject(d, e)

\* outputStream.on('error', ...), lines 275-277
OnOutputError(d, e) == Reject(d, e)

\* outputStream.on('close', ...), lines 280-282
OnOutputClose(d, p) == Resolve(d, p)

\* Bytes of the tarball, in chunks.
StreamChunks == 2

DlStart ==
    [phase |-> "idle", pkg |-> <<>>, version |-> <<>>, npm |-> 0,
     id |-> <<>>, info |-> NoInfo, name |-> <<>>, resolved |-> <<>>,
     innerError |-> "none", deferred |-> NoDeferred,
     outputFile |-> NoFile, input |-> "none", output |-> "none",
     sent |-> 0, closes |-> 0,
     loads |-> 0, cacheAdds |-> 0, manifests |-> 0, path |-> "none",
     added |-> "none", infoFrom |-> "none", streamBy |-> "none",
     digest |-> <<>>]

DlInit == dl = DlStart /\ fs = {}

\* Every downloadTarball action leaves the other specifications' state.
DlFrame == UNCHANGED <<fvars, pvars, rvars>>

\* downloadTarball(pkg, version, dir), lines 251-254 and 48-51: the deferred
\* is created and npm.load is called.
DownloadTarball(pkg, version, npmv) ==
    /\ dl.phase = "idle"
    /\ dl' = [dl EXCEPT !.phase = "load", !.pkg = pkg, !.version = version,
                        !.npm = npmv, !.id = PkgId(pkg, version),
                        !.deferred = Pending, !.loads = @ + 1]
    /\ UNCHANGED fs
    /\ DlFrame

\* npm.load calls back with an error: the promise of execNpm is rejected.
NpmLoadFailsCallsBack(e) ==
    /\ dl.phase = "load"
    /\ dl' = [dl EXCEPT !.phase = "innerRejected", !.innerError = e,
                        !.cacheAdds = @ + 1]
    /\ UNCHANGED fs
    /\ DlFrame

NpmLoadFails(e) ==
    /\ dl.phase = "load"
    /\ dl' = [dl EXCEPT !.phase = "innerRejected", !.innerError = e]
    /\ UNCHANGED fs
    /\ DlFrame

\* npm.load calls back without error: execCacheCommand picks the cache
\* command by npm's version and calls cache.add (lines 99-105, 117, 167).
NpmLoadOk ==
    /\ dl.phase = "load"
    /\ dl' = [dl EXCEPT !.phase = IF IsLegacyNpm(dl.npm)
                                    THEN "cacheOld" ELSE "cacheNew",
                        !.path = IF IsLegacyNpm(dl.npm)
                                   THEN "old" ELSE "new",
                        !.cacheAdds = @ + 1]
    /\ UNCHANGED fs
    /\ DlFrame

\* oldNpmCache, lines 116-128.
OldCacheAddFails(e) ==
    /\ dl.phase = "cacheOld"
    /\ dl' = [dl EXCEPT !.phase = "innerRejected", !.innerError = e]
    /\ UNCHANGED fs
    /\ DlFrame

OldCacheAddOk ==
    /\ dl.phase = "cacheOld"
    /\ dl' = [dl EXCEPT !.phase = "innerResolved",
                        !.info = RegistryInfo(dl.id),
                        !.name = RegistryInfo(dl.id).manifest.name,
                        !.resolved = RegistryInfo(dl.id).manifest.version,
                        !.added = "info", !.infoFrom = "cacheAdd",
                        !.streamBy = "path",
                        !.input = "open"]
    /\ UNCHANGED fs
    /\ DlFrame

\* newNpmCache, lines 166-184: cache.add fails, returns the manifest info, or
\* returns nothing and getManifest is called.
NewCacheAddFails(e) ==
    /\ dl.phase = "cacheNew"
    /\ dl' = [dl EXCEPT !.phase = "innerRejected", !.innerError = e,
                        !.added = "error"]
    /\ UNCHANGED fs
    /\ DlFrame

NewCacheAddReturns(withInfo) ==
    /\ dl.phase = "cacheNew"
    /\ dl' = IF NeedsManifest(CacheAddInfo(dl.id, withInfo))
               THEN [dl EXCEPT !.phase = "manifest",
                               !.added = IF withInfo THEN "info" ELSE "nothing",
                               !.manifests = @ + 1]
               ELSE [dl EXCEPT !.phase = "newInfo",
                               !.added = IF withInfo THEN "info" ELSE "nothing",
                               !.info = CacheAddInfo(dl.id, withInfo),
                               !.infoFrom = "cacheAdd"]
    /\ UNCHANGED fs
    /\ DlFrame

\* getManifest, lines 139-156.
ManifestFails(e) ==
    /\ dl.phase = "manifest"
    /\ dl' = [dl EXCEPT !.phase = "innerRejected", !.innerError = e]
    /\ UNCHANGED fs
    /\ DlFrame

ManifestOk ==
    /\ dl.phase = "manifest"
    /\ dl' = [dl EXCEPT !.phase = "newInfo", !.info = RegistryInfo(dl.id),
                        !.infoFrom = "manifest"]
    /\ UNCHANGED fs
    /\ DlFrame

\* Second then-handler of newNpmCache, lines 173-180: the stream is opened by
\* the digest of the info.
NewOpenStream ==
    /\ dl.phase = "newInfo"
    /\ dl' = [dl EXCEPT !.phase = "innerResolved",
                        !.name = dl.info.manifest.name,
                        !.resolved = dl.info.manifest.version,
                        !.streamBy = "digest",
                        !.digest = dl.info.integrity,
                        !.input = "open"]
    /\ UNCHANGED fs
    /\ DlFrame

\* .catch of downloadTarball, lines 286-288.
OuterCatch ==
    /\ dl.phase = "innerRejected"
    /\ dl' = [dl EXCEPT !.phase = "failed",
                        !.deferred = Reject(dl.deferred, dl.innerError)]
    /\ UNCHANGED fs
    /\ DlFrame

\* .then of downloadTarball, lines 255-285: the output file is named, the
\* atomic write stream is opened on its temporary file, the handlers are
\* registered and the input is piped into the output.
ThenPipe ==
    /\ dl.phase = "innerResolved"
    /\ dl' = [dl EXCEPT !.phase = "piping",
                        !.outputFile = OutputFile(TargetDir, dl.name,
                                                  dl.resolved),
                        !.output = "open"]
    /\ fs' = fs \cup {[path |-> TmpFile(OutputFile(TargetDir, dl.name,
                                                   dl.resolved)),
                       bytes |-> 0]}
    /\ DlFrame

\* A chunk goes from the input to the output's temporary file.
InputData ==
    /\ dl.phase = "piping"
    /\ dl.input = "open" /\ dl.output = "open"
    /\ dl.sent < StreamChunks
    /\ dl' = [dl EXCEPT !.sent = @ + 1]
    /\ fs' = {IF f.path = TmpFile(dl.outputFile)
                THEN [f EXCEPT !.bytes = @ + 1] ELSE f : f \in fs}
    /\ DlFrame

\* The input ends: pipe ends the output, unless the output was unpiped by an
\* error of its own.
InputEnd ==
    /\ dl.phase = "piping"
    /\ dl.input = "open"
    /\ dl.sent = StreamChunks
    /\ dl' = [dl EXCEPT !.input = "ended",
                        !.output = IF @ = "open" THEN "ending" ELSE @]
    /\ UNCHANGED fs
    /\ DlFrame

\* The input emits 'error' instead of more data or 'end': the handler
\* rejects; nobody ends the output stream, its temporary file stays.
InputError(e) ==
    /\ dl.phase = "piping"
    /\ dl.input = "open"
    /\ dl' = [dl EXCEPT !.input = "errored",
                        !.deferred = OnInputError(dl.deferred, e)]
    /\ UNCHANGED fs
    /\ DlFrame

\* The output emits 'error' (a failed write, or a failed rename): the atomic
\* stream has unlinked its temporary file; the handler rejects.
OutputError(e) ==
    /\ dl.phase = "piping"
    /\ dl.output \in {"open", "ending"}
    /\ dl' = [dl EXCEPT !.output = "errored",
                        !.deferred = OnOutputError(dl.deferred, e)]
    /\ fs' = {f \in fs : f.path # TmpFile(dl.outputFile)}
    /\ DlFrame

\* The ended output has flushed: the temporary file is renamed to the target.
OutputRename ==
    /\ dl.phase = "piping"
    /\ dl.output = "ending"
    /\ dl' = [dl EXCEPT !.output = "renamed"]
    /\ fs' = {IF f.path = TmpFile(dl.outputFile)
                THEN [f EXCEPT !.path = dl.outputFile] ELSE f : f \in fs}
    /\ DlFrame

\* The output emits 'close', after the rename or after its 'error'.
OutputClose ==
    /\ dl.phase = "piping"
    /\ dl.output \in {"renamed", "errored"}
    /\ dl.closes = 0
    /\ dl' = [dl EXCEPT !.closes = 1,
                        !.deferred = OnOutputClose(dl.deferred, dl.outputFile)]
    /\ UNCHANGED fs
    /\ DlFrame

NextDownload ==
    \/ \E p \in PkgNames, v \in VersionSpecs, n \in NpmVersions :
          DownloadTarball(p, v, n)
    \/ \E e \in LoadErrors : NpmLoadFails(e)
    \/ NpmLoadOk
    \/ \E e \in CacheAddErrors : OldCacheAddFails(e)
    \/ OldCacheAddOk
    \/ \E e \in CacheAddErrors : NewCacheAddFails(e)
    \/ \E b \in BOOLEAN : NewCacheAddReturns(b)
    \/ \E e \in ManifestErrors : ManifestFails(e)
    \/ ManifestOk
    \/ NewOpenStream
    \/ OuterCatch
    \/ ThenPipe
    \/ InputData
    \/ InputEnd
    \/ \E e \in StreamErrors : InputError(e)
    \/ \E e \in StreamErrors : OutputError(e)
    \/ OutputRename
    \/ OutputClose

(***************************************************************************)
(* releases: resolver.js 54-64 over the npm wrapper's releases (226-237)   *)
(***************************************************************************)

V10 == <<"1", "0", ".", "0">>

\* Version strings a view response is made of.
VersionKeys == {V1, V2, V10}

\* Longest version array, and most keys of a map, in a view response.
MaxVersions == 2

\* UTF-16 code unit of a character of a version string.
CharCode(c) ==
    CASE c = "." -> 46 [] c = "0" -> 48 [] c = "1" -> 49 [] c = "2" -> 50

\* a < b as JavaScript compares strings: by the first differing code unit,
\* a proper prefix being smaller.
RECURSIVE StringLess(_, _)
StringLess(a, b) ==
    IF b = <<>> THEN FALSE
    ELSE IF a = <<>> THEN TRUE
    ELSE IF Head(a) = Head(b) THEN StringLess(Tail(a), Tail(b))
    ELSE CharCode(Head(a)) < CharCode(Head(b))

\* Array.prototype.sort without comparator: ascending string order.
RECURSIVE InsertSorted(_, _)
InsertSorted(x, s) ==
    IF s = <<>> THEN <<x>>
    ELSE IF StringLess(x, Head(s)) THEN <<x>> \o s
    ELSE <<Head(s)>> \o InsertSorted(x, Tail(s))

RECURSIVE SortStrings(_)
SortStrings(s) ==
    IF s = <<>> THEN <<>> ELSE InsertSorted(Head(s), SortStrings(Tail(s)))

\* An object is the sequence of its entries, in insertion order.
ObjectKeys(o) == [k \in 1..Len(o) |-> o[k].key]

\* Position of the entry of a key.
ObjectGet(o, key) == CHOOSE k \in 1..Len(o) : o[k].key = key

\* getLastKey
GetLastKeyUnsorted(o) == ObjectKeys(o)[Len(o)]

getLastKey(o) == SortStrings(ObjectKeys(o))[Len(o)]

\* Sequences over S of length at most n.
RECURSIVE SeqsUpTo(_, _)
SeqsUpTo(S, n) ==
    IF n = 0 THEN {<<>>}
    ELSE SeqsUpTo(S, n - 1)
           \cup {Append(s, x) : s \in {t \in SeqsUpTo(S, n - 1) : Len(t) = n - 1},
                                x \in S}

\* The version list npm view nests under a key.
EntryVersions(key) == IF key = V1 THEN <<V1>> ELSE <<V1, key>>

\* What npm view calls back with: a flat array of versions, or an object
\* keyed by version whose entries carry a `versions` array.
ViewArrays ==
    {[isArray |-> TRUE, array |-> a, object |-> <<>>] :
        a \in SeqsUpTo(VersionKeys, MaxVersions)}

ViewObjects ==
    {[isArray |-> FALSE, array |-> <<>>,
      object |-> [k \in 1..Len(ks) |->
                    [key |-> ks[k], versions |-> EntryVersions(ks[k])]]] :
        ks \in {t \in SeqsUpTo(VersionKeys, MaxVersions) :
                  /\ Len(t) >= 1
                  /\ \A x, y \in 1..Len(t) : x # y => t[x] # t[y]}}

NoData == [isArray |-> TRUE, array |-> <<>>, object |-> <<>>]

ViewErrors == {"ViewError"}

\* The then-handler of the wrapper's releases, lines 227-236.
Unwrapped(data) ==
    IF data.isArray
      THEN data.array
      ELSE data.object[ObjectGet(data.object, getLastKey(data.object))].versions

\* The then-handler of the resolver's releases, lines 56-63.
MapVersionsTargetAny(versions) ==
    [k \in 1..Len(versions) |-> [target |-> <<"*">>, version |-> versions[k]]]

MapVersions(versions) ==
    [k \in 1..Len(versions) |-> [target |-> versions[k], version |-> versions[k]]]

RelStart ==
    [phase |-> "idle", pkg |-> <<>>, data |-> NoData, viewed |-> FALSE,
     versions |-> <<>>, result |-> <<>>, state |-> "none", error |-> "none",
     loads |-> 0, views |-> 0]

RelInit == rel = RelStart

RelFrame == UNCHANGED <<fvars, dvars, pvars>>

\* releases(source): npmUtils.releases(pkg) -> execViewCommand -> execNpm,
\* which calls npm.load.
Releases(pkg) ==
    /\ rel.phase = "idle"
    /\ rel' = [rel EXCEPT !.phase = "load", !.pkg = pkg,
                          !.state = "pending", !.loads = @ + 1]
    /\ RelFrame

\* npm.load calls back with an error, lines 52-53: neither then-handler
\* runs, the promise of releases is rejected with the error.
RelLoadFails(e) ==
    /\ rel.phase = "load"
    /\ rel' = [rel EXCEPT !.phase = "done", !.state = "rejected", !.error = e]
    /\ RelFrame

\* npm.load calls back without error: npm.commands.view is called, line 76.
RelLoadOk ==
    /\ rel.phase = "load"
    /\ rel' = [rel EXCEPT !.phase = "view", !.views = @ + 1]
    /\ RelFrame

\* npm view calls back with an error, lines 77-78.
ViewFails(e) ==
    /\ rel.phase = "view"
    /\ rel' = [rel EXCEPT !.phase = "done", !.state = "rejected", !.error = e]
    /\ RelFrame

\* npm view calls back with data, lines 79-80.
ViewReturns(data) ==
    /\ rel.phase = "view"
    /\ rel' = [rel EXCEPT !.phase = "unwrap", !.data = data, !.viewed = TRUE]
    /\ RelFrame

\* The wrapper's then-handler.
Unwrap ==
    /\ rel.phase = "unwrap"
    /\ rel' = [rel EXCEPT !.phase = "map", !.versions = Unwrapped(rel.data)]
    /\ RelFrame

\* The resolver's then-handler: the promise of releases is fulfilled.
ResolveReleases ==
    /\ rel.phase = "map"
    /\ rel' = [rel EXCEPT !.phase = "done", !.state = "fulfilled",
                          !.result = MapVersions(rel.versions)]
    /\ RelFrame

NextReleases ==
    \/ \E p \in PkgNames : Releases(p)
    \/ \E e \in LoadErrors : RelLoadFails(e)
    \/ RelLoadOk
    \/ \E e \in ViewErrors : ViewFails(e)
    \/ \E d \in ViewArrays \cup ViewObjects : ViewReturns(d)
    \/ Unwrap
    \/ ResolveReleases

(***************************************************************************)
(* Pure functions of resolver.js                                           *)
(***************************************************************************)

\* Longest input string, and the characters it is made of.
MaxLen == 5
Alphabet == {"n", "p", "m", "+", "=", "a"}

RECURSIVE Strings(_)
Strings(n) ==
    IF n = 0 THEN {<<>>}
    ELSE Strings(n - 1)
           \cup {Append(s, c) : s \in {t \in Strings(n - 1) : Len(t) = n - 1},
                                c \in Alphabet}

\* The reserved prefix, 'npm+'.
Prefix == <<"n", "p", "m", "+">>

\* String.prototype.indexOf: the first position (from 0) at which t occurs
\* in s, or -1.
IndexOf(s, t) ==
    LET ks == {k \in 0..(Len(s) - Len(t)) :
                 SubSeq(s, k + 1, k + Len(t)) = t}
    IN  IF ks = {} THEN -1 ELSE CHOOSE k \in ks : \A j \in ks : k <= j

\* match(source): source.indexOf('npm+') === 0
MatchAnywhere(source) == IndexOf(source, Prefix) # -1

Match(source) == IndexOf(source, Prefix) = 0

NoOut == [fn |-> "none", bool |-> FALSE, str |-> <<>>]

PureInit == src \in Strings(MaxLen) /\ arg = <<>> /\ out = NoOut

ApplyMatch ==
    /\ out.fn = "none"
    /\ out' = [fn |-> "match", bool |-> Match(src), str |-> <<>>]
    /\ UNCHANGED <<src, arg, fvars, dvars, rvars>>

NextPure == ApplyMatch

(***************************************************************************)
(* The package name and the target that releases and fetch use             *)
(***************************************************************************)

\* s.split(sep)[0]: the part of s before the first sep, all of s without one.
RECURSIVE FirstPart(_, _)
FirstPart(s, sep) ==
    IF s = <<>> \/ Head(s) = sep THEN <<>>
    ELSE <<Head(s)>> \o FirstPart(Tail(s), sep)

\* s.slice(n)
Slice(s, n) == SubSeq(s, n + 1, Len(s))

\* extractPackageName: source.split('=')[0].slice(4)
ExtractWithoutSplit(source) == Slice(source, 4)

extractPackageName(source) == Slice(FirstPart(source, "="), 4)

\* Longest package name and longest target of a source string.
MaxPkgLen == 2
MaxTargetLen == 2

PkgChars == {"a", "@", "/"}
TargetChars == {"1", "="}

\* Targets: what follows the first '=' of a source, and what the host passes
\* as endpoint.target.
Targets == SeqsUpTo(TargetChars, MaxTargetLen) \ {<<>>}

\* Source strings of the shape <prefix>name=target.
Sources ==
    {Prefix \o n \o <<"=">> \o t :
        n \in SeqsUpTo(PkgChars, MaxPkgLen) \ {<<>>}, t \in Targets}

SourceInit == src \in Sources /\ arg \in Targets /\ out = NoOut

\* releases(source), lines 55-56: the argument of npmUtils.releases.
ReleasesArgs ==
    /\ out.fn = "none"
    /\ out' = [fn |-> "releases", bool |-> FALSE,
               str |-> <<extractPackageName(src)>>]
    /\ UNCHANGED <<src, arg, fvars, dvars, rvars>>

\* fetch(endpoint, cached) with endpoint = {source: src, target: arg},
\* lines 74 and 86: the arguments of npmUtils.tarball.
FetchArgs ==
    /\ out.fn = "none"
    /\ out' = [fn |-> "fetch", bool |-> FALSE,
               str |-> <<extractPackageName(src), arg>>]
    /\ UNCHANGED <<src, arg, fvars, dvars, rvars>>

NextSource == ReleasesArgs \/ FetchArgs

(***************************************************************************)
(* normalizePkgName over names                                             *)
(***************************************************************************)

\* Longest name.
MaxName == 4

NameChars == {"@", "/", "-", "a"}

NamesInit == src \in SeqsUpTo(NameChars, MaxName) /\ arg = <<>> /\ out = NoOut

\* normalizePkgName(src)
NormalizeName ==
    /\ out.fn = "none"
    /\ out' = [fn |-> "normalizePkgName", bool |-> FALSE,
               str |-> normalizePkgName(src)]
    /\ UNCHANGED <<src, arg, fvars, dvars, rvars>>

\* normalizePkgName applied to its own result; arg keeps the first result.
NormalizeAgain ==
    /\ out.fn = "normalizePkgName"
    /\ arg' = out.str
    /\ out' = [fn |-> "again", bool |-> FALSE,
               str |-> normalizePkgName(out.str)]
    /\ UNCHANGED <<src, fvars, dvars, rvars>>

NextNames == NormalizeName \/ NormalizeAgain

(***************************************************************************)
(* Specifications                                                          *)
(***************************************************************************)

\* The parts a specification does not exercise stay in their initial state.
FetchIdle == FetchInit /\ npmUtils = NpmUtilsExports
DlIdle == DlInit
RelIdle == RelInit
PureIdle == src = <<>> /\ arg = <<>> /\ out = NoOut

NextFetch ==
    \E i \in Inv :
        \/ \E c \in CachedArgs : Fetch(i, c)
        \/ TarballResolves(i)
        \/ \E e \in TarballErrors : TarballRejects(i, e)
        \/ ThenDownload(i)
        \/ DownloadResolves(i)
        \/ \E e \in DownloadErrors : DownloadRejects(i, e)
        \/ ThenExtract(i)
        \/ ExtractResolves(i)
        \/ \E e \in ExtractErrors : ExtractRejects(i, e)
        \/ ThenReturn(i)
        \/ Catch(i)
        \/ Finally(i)

InitFetch == FetchInit /\ DlIdle /\ PureIdle /\ RelIdle

SpecFetch == InitFetch /\ [][NextFetch]_vars

InitDownload == DlInit /\ FetchIdle /\ PureIdle /\ RelIdle

SpecDownload == InitDownload /\ [][NextDownload]_vars

InitPure == PureInit /\ FetchIdle /\ DlIdle /\ RelIdle

SpecPure == InitPure /\ [][NextPure]_vars

InitReleases == RelInit /\ FetchIdle /\ DlIdle /\ PureIdle

SpecReleases == InitReleases /\ [][NextReleases]_vars

InitSource == SourceInit /\ FetchIdle /\ DlIdle /\ RelIdle

SpecSource == InitSource /\ [][NextSource]_vars

InitNames == NamesInit /\ FetchIdle /\ DlIdle /\ RelIdle

SpecNames == InitNames /\ [][NextNames]_vars

NextRegistry == NextReleases \/ NextDownload

SpecRegistry == InitReleases /\ [][NextRegistry]_vars

(***************************************************************************)
(* Claims about resolver.fetch (checked under SpecFetch)                   *)
(***************************************************************************)

\* An invocation is over: its promise settled, or the call threw.
Over(i) == pc[i] \in {"settled", "thrown"}

\* C1: for every non-cached fetch whose extraction step failed, once the
\* invocation is over its extraction directory has been removed and the
\* promise fetch returned is rejected.
C1_ExtractFailureCleansUp ==
    \A i \in Inv :
        (failedAt[i].step = "extract" /\ pc[i] = "settled")
            => (tmpPackage[i] \notin dirs /\ promise[i].state = "rejected")

\* C2: every invocation that allocated a tar holding directory has removed
\* it by the time the invocation is over, whatever succeeded or failed
\* (the end state of "eventually removed").
C2_TarDirRemovedWhenOver ==
    \A i \in Inv : (Over(i) /\ tmpTar[i] # 0) => tmpTar[i] \notin dirs

\* C3: every failure inside a non-cached fetch reaches the caller as a
\* rejection of the returned promise: fetch never throws after allocating
\* its directories, and a failed fetch never ends fulfilled.
C3_FailuresRejectThePromise ==
    \A i \in Inv :
        /\ (tmpTar[i] # 0) => ret[i] # "throw"
        /\ (failedAt[i].step # "none" /\ Over(i))
               => promise[i].state = "rejected"

\* C4: when the extractor fails with error E, the promise fetch returned is
\* rejected with E itself.
C4_ExtractionErrorUnchanged ==
    \A i \in Inv :
        (failedAt[i].step = "extract" /\ pc[i] = "settled")
            => (promise[i].state = "rejected"
                /\ promise[i].error = failedAt[i].error)

\* Number of invocations that went past the cache test.
NonCached == Cardinality({i \in Inv : ret[i] \in {"promise", "throw"}})

C6_CacheHitIsNoOp ==
    /\ \A i \in Inv :
         pc[i] # "idle" =>
           IF cachedArg[i].defined /\ cachedArg[i].version # ""
             THEN /\ ret[i] = "undefined"
                  /\ tmpTar[i] = 0 /\ tmpPackage[i] = 0
                  /\ started[i] = {}
                  /\ promise[i].state = "none"
                  /\ ~ \E u \in uses : u[1] = i
             ELSE /\ ret[i] \in {"promise", "throw"}
                  /\ tmpTar[i] # 0 /\ tmpPackage[i] # 0
                  /\ "tarball" \in npmUtils => "tarball" \in started[i]
    /\ nextDir - 1 =
         2 * Cardinality({i \in Inv : pc[i] # "idle" /\
                 ~(cachedArg[i].defined /\ cachedArg[i].version # "")})

C6_Witness ==
    \E i, j \in Inv :
        /\ pc[i] = "returned" /\ cachedArg[i].version = "1.0.0"
        /\ pc[j] \notin {"idle", "returned"}
        /\ cachedArg[j].defined /\ cachedArg[j].version = ""

\* C7: when tarball resolution, download and extraction all succeeded, the
\* promise resolves with {tempPath: <extraction dir>/package,
\* removeIgnores: true}, the value the finally handler received.
C7_SuccessValue ==
    \A i \in Inv :
        (pc[i] = "settled" /\ failedAt[i].step = "none")
            => /\ promise[i].state = "fulfilled"
               /\ promise[i].kind = "object"
               /\ promise[i].path = [dir |-> tmpPackage[i], sub |-> "package"]
               /\ promise[i].removeIgnores = TRUE
               /\ promise[i] = chain[i]

C7_Witness ==
    \E i \in Inv :
        /\ pc[i] = "settled" /\ failedAt[i].step = "none"
        /\ {"tarball", "download", "extract"} \subseteq started[i]

\* Invocation i starts collaborator call c in this step.
Starts(i, c) == c \in started'[i] /\ c \notin started[i]

\* Invocation i's tar holding directory is removed in this step.
RemovesTarDir(i) == tmpTar[i] \in dirs /\ tmpTar[i] \notin dirs'

\* C14: within one invocation the steps are strictly ordered.  Tarball
\* resolution starts with both directories allocated; the download starts
\* only when the chain holds the fulfilled value of tarball resolution;
\* extraction starts only when the chain holds the fulfilled value of the
\* download; the tar holding directory is removed only when extraction has
\* completed or a step has failed, never while the download or the
\* extraction is in progress.
C14_StepsStrictlyOrdered ==
    [][\A i \in Inv :
         /\ Starts(i, "tarball")
               => /\ {tmpTar'[i], tmpPackage'[i]} \subseteq dirs'
                  /\ tmpTar'[i] # tmpPackage'[i]
                  /\ started[i] = {}
         /\ Starts(i, "download")
               => /\ chain[i] = Fulfilled("url", NoPath, FALSE)
                  /\ started[i] = {"tarball"}
                  /\ failedAt[i].step = "none"
         /\ Starts(i, "extract")
               => /\ chain[i] = Fulfilled("file", PathJoin(tmpTar[i], "tgz"),
                                          FALSE)
                  /\ started[i] = {"tarball", "download"}
                  /\ failedAt[i].step = "none"
                  /\ tmpTar[i] \in dirs
         /\ RemovesTarDir(i)
               => /\ pc[i] \notin {"tarball", "download", "extract"}
                  /\ \/ failedAt[i].step # "none"
                     \/ /\ started[i] = {"tarball", "download", "extract"}
                        /\ chain[i] = ThenResult(tmpPackage[i])
       ]_vars

C14_Witness ==
    \E i \in Inv :
        /\ pc[i] = "settled" /\ failedAt[i].step = "none"
        /\ {<<i, "download", tmpTar[i]>>, <<i, "extract", tmpPackage[i]>>,
            <<i, "remove", tmpTar[i]>>} \subseteq uses
        /\ tmpTar[i] \notin dirs

\* Directories invocation i allocated.
Own(i) == {tmpTar[i], tmpPackage[i]} \ {0}

\* C15: under every interleaving of the invocations, each one downloads
\* into, reads, extracts into and removes only directories it allocated
\* itself, on the error path too; no directory belongs to two invocations,
\* and a directory disappears only in a step of the invocation owning it.
C15_OnlyOwnDirectories ==
    [][/\ \A i, j \in Inv : i # j => Own(i) \cap Own(j) = {}
       /\ \A u \in uses' : u[3] \in {tmpTar'[u[1]], tmpPackage'[u[1]]} \ {0}
       /\ \A d \in dirs \ dirs' :
            \E i \in Inv : d \in Own(i) /\ pc'[i] # pc[i]
      ]_vars

C15_Witness ==
    \E i, j \in Inv :
        /\ i # j
        /\ pc[i] = "settled" /\ failedAt[i].step = "download"
        /\ <<i, "remove", tmpTar[i]>> \in uses
        /\ pc[j] = "extract"
        /\ Own(j) \subseteq dirs /\ Cardinality(Own(j)) = 2

(***************************************************************************)
(* Claims about downloadTarball (checked under SpecDownload)               *)
(***************************************************************************)

\* Files at the output path of the call.
AtOutputPath == {f \in fs : f.path = dl.outputFile}

\* C8: once the input or the output stream has emitted an error, the promise
\* of downloadTarball is rejected, no file is at the final output path (the
\* temporary file is never renamed), and the promise is not resolved with
\* the output path, in that state and in every later one (an errored stream
\* stays errored, also through the 'close' that follows an output error).
C8_StreamErrorRejects ==
    (dl.input = "errored" \/ dl.output = "errored")
        => /\ dl.deferred.state = "rejected"
           /\ dl.deferred.error \in StreamErrors
           /\ dl.deferred.path # dl.outputFile
           /\ AtOutputPath = {}

C8_Witness ==
    /\ dl.output = "errored" /\ dl.closes = 1
    /\ dl.input = "ended" /\ dl.sent = StreamChunks

\* The file name the claim expects for name n and version v: a leading '@'
\* dropped and every '/' turned into '-', then '-', the version and '.tgz'.
ExpectedFile(n, v) ==
    [dir  |-> TargetDir,
     file |-> (IF n[1] = "@"
                 THEN [k \in 1..(Len(n) - 1) |->
                         IF n[k + 1] = "/" THEN "-" ELSE n[k + 1]]
                 ELSE n)
              \o <<"-">> \o v \o <<".", "t", "g", "z">>]

C10_MatchIffPrefix ==
    out.fn = "match"
        => (out.bool <=> (/\ Len(src) >= 4
                          /\ src[1] = "n" /\ src[2] = "p"
                          /\ src[3] = "m" /\ src[4] = "+"))

C10_Witness ==
    /\ out.fn = "match" /\ out.bool
    /\ src = <<"n", "p", "m", "+", "a">>

(***************************************************************************)
(* Claims about releases (checked under SpecReleases)                      *)
(***************************************************************************)

\* C11: when npm view answers with a flat array of version strings,
\* releases resolves with a sequence of the same length and order whose
\* i-th element is {target: v_i, version: v_i}.
C11_ArrayMappedInOrder ==
    (rel.state = "fulfilled" /\ rel.data.isArray)
        => /\ Len(rel.result) = Len(rel.data.array)
           /\ \A k \in 1..Len(rel.data.array) :
                /\ rel.result[k].target = rel.data.array[k]
                /\ rel.result[k].version = rel.data.array[k]

C11_Witness ==
    /\ rel.state = "fulfilled" /\ rel.data.isArray
    /\ rel.data.array = <<V2, V1>>
    /\ rel.result = <<[target |-> V2, version |-> V2],
                      [target |-> V1, version |-> V1]>>

\* C12: when npm view answers with a non-empty map keyed by version strings,
\* the version list returned is the `versions` field of the entry whose key
\* no other key of the map follows in string order.
C12_LastKeyInStringOrder ==
    (rel.viewed /\ ~rel.data.isArray /\ rel.phase \in {"map", "done"})
        => \E k \in 1..Len(rel.data.object) :
             /\ \A j \in 1..Len(rel.data.object) :
                  ~StringLess(rel.data.object[k].key, rel.data.object[j].key)
             /\ rel.versions = rel.data.object[k].versions

C12_Witness ==
    /\ rel.state = "fulfilled" /\ ~rel.data.isArray
    /\ ObjectKeys(rel.data.object) = <<V2, V10>>
    /\ rel.versions = <<V1, V2>>

(***************************************************************************)
(* Claims about the source string (checked under SpecSource)               *)
(***************************************************************************)

\* Position of the first '=' of the source.
FirstEq == CHOOSE k \in 1..Len(src) :
              src[k] = "=" /\ \A j \in 1..(k - 1) : src[j] # "="

\* C13 (as stated): for a source <prefix>name=target, releases and fetch use
\* as package name the substring between the 4-character prefix and the
\* first '=', and fetch uses as target the substring after the first '='.
C13_NameAndTargetFromSource ==
    /\ out.fn \in {"releases", "fetch"}
         => out.str[1] = SubSeq(src, 5, FirstEq - 1)
    /\ out.fn = "fetch"
         => out.str[2] = SubSeq(src, FirstEq + 1, Len(src))

\* C13 (amended): for a source <prefix>name=target, releases and fetch use
\* as package name the substring between the 4-character prefix and the
\* first '='; the target fetch uses is endpoint.target as the host passed
\* it, whatever follows the '=' of the source.
C13_NameFromSourceTargetFromEndpoint ==
    /\ out.fn \in {"releases", "fetch"}
         => out.str[1] = SubSeq(src, 5, FirstEq - 1)
    /\ out.fn = "fetch" => out.str[2] = arg

C13_Witness ==
    /\ out.fn = "fetch"
    /\ src = <<"n", "p", "m", "+", "@", "a", "=", "1", "=">>
    /\ arg = <<"=", "1">>
    /\ out.str = << <<"@", "a">>, <<"=", "1">> >>

(***************************************************************************)
(* Claims about the registry client (checked under SpecRegistry)           *)
(***************************************************************************)

\* C16: a failed npm.load, view, cache add or manifest fetch rejects the
\* promise of the calling operation (releases, downloadTarball) with that
\* error, and nothing is issued again: per call at most one load, one view,
\* one cache add and one manifest fetch; after a failed load, no view and no
\* cache add.
C16_RegistryFailuresRejectNoRetry ==
    /\ rel.loads <= 1 /\ rel.views <= 1
    /\ dl.loads <= 1 /\ dl.cacheAdds <= 1 /\ dl.manifests <= 1
    \* releases: over without a view issued, the load failed; over with a
    \* view issued that returned nothing, the view failed
    /\ (rel.phase = "done" /\ rel.views = 0)
         => (rel.state = "rejected" /\ rel.error \in LoadErrors)
    /\ (rel.phase = "done" /\ rel.views = 1 /\ ~rel.viewed)
         => (rel.state = "rejected" /\ rel.error \in ViewErrors)
    /\ rel.error \in LoadErrors => rel.views = 0
    \* downloadTarball
    /\ dl.innerError \in LoadErrors => (dl.cacheAdds = 0 /\ dl.manifests = 0)
    /\ dl.innerError \in CacheAddErrors
         => (dl.cacheAdds = 1 /\ dl.manifests = 0)
    /\ dl.innerError \in ManifestErrors => dl.manifests = 1
    /\ dl.innerError # "none"
         => (dl.phase \in {"innerRejected", "failed"} /\ dl.input = "none")
    /\ dl.phase = "failed"
         => /\ dl.deferred.state = "rejected"
            /\ dl.deferred.error = dl.innerError
            /\ dl.innerError \in
                 LoadErrors \cup CacheAddErrors \cup ManifestErrors

C16_Witness ==
    /\ dl.phase = "failed" /\ dl.deferred.error \in ManifestErrors
    /\ rel.state = "rejected" /\ rel.error \in ViewErrors

(***************************************************************************)
(* Further claims about downloadTarball (checked under SpecDownload)       *)
(***************************************************************************)

\* C17: on the modern path (npm not below 5.0.0) the manifest is fetched
\* exactly when cache add returned nothing; info that cache add returned is
\* used as it is, without a manifest fetch.  Either way the stream is
\* opened by the integrity digest of the info used, after cache add (and
\* the manifest fetch, if there was one) has completed.
C17_ManifestIffCacheAddReturnedNothing ==
    dl.path = "new" =>
        /\ dl.manifests = (IF dl.added = "nothing" THEN 1 ELSE 0)
        /\ dl.added = "info"
             => (dl.info = RegistryInfo(dl.id) /\ dl.infoFrom = "cacheAdd")
        /\ dl.input # "none" => dl.streamBy = "digest"
        /\ dl.streamBy # "none"
             => /\ dl.streamBy = "digest"
                /\ dl.info # NoInfo
                /\ dl.digest = dl.info.integrity
                /\ dl.cacheAdds = 1
                /\ dl.added \in {"info", "nothing"}
                /\ dl.infoFrom =
                     (IF dl.added = "nothing" THEN "manifest" ELSE "cacheAdd")

C17_Witness ==
    /\ dl.path = "new" /\ dl.added = "nothing" /\ dl.manifests = 1
    /\ dl.infoFrom = "manifest" /\ dl.streamBy = "digest"
    /\ dl.digest = RegistryInfo(dl.id).integrity
    /\ dl.input = "open"

\* C19: the promise of downloadTarball is settled at most once, whatever the
\* order of the input's 'error', the output's 'error' and the output's
\* 'close': once settled it never changes, so a 'close' after an error
\* leaves the rejection; and it becomes resolved only in the step of the
\* output's 'close', with the output path, no stream having failed.
C19_SettledOnce ==
    [][/\ dl.deferred.state \in {"resolved", "rejected"}
            => dl'.deferred = dl.deferred
       /\ (dl'.deferred.state = "resolved" /\ dl.deferred.state # "resolved")
            => /\ dl.closes = 0 /\ dl'.closes = 1
               /\ dl'.deferred.path = dl.outputFile
               /\ dl.input # "errored" /\ dl.output = "renamed"
      ]_vars

C19_Witness ==
    /\ dl.input = "errored" /\ dl.output = "errored" /\ dl.closes = 1
    /\ dl.deferred.state = "rejected"

(***************************************************************************)
(* Claims about normalizePkgName (checked under SpecNames)                 *)
(***************************************************************************)

\* The name starts with '@'.
Scoped == Len(src) > 0 /\ src[1] = "@"

\* No package name starts with two '@': a scope is one '@' and a name.
SingleAt == ~(Len(src) > 1 /\ src[1] = "@" /\ src[2] = "@")

\* C18: a name that does not start with '@' is returned unchanged; of a
\* scoped name the leading '@' is dropped and every '/' becomes '-'
\* ('@scope/name' gives 'scope-name'), so the result starts with no '@' and
\* holds no '/'; normalizing the result again changes nothing.
C18_NormalizeScopedNames ==
    /\ (out.fn = "normalizePkgName" /\ ~Scoped) => out.str = src
    /\ (out.fn = "normalizePkgName" /\ Scoped /\ SingleAt)
         => /\ Len(out.str) = Len(src) - 1
            /\ \A k \in 1..Len(out.str) :
                 out.str[k] = (IF src[k + 1] = "/" THEN "-" ELSE src[k + 1])
            /\ out.str = <<>> \/ out.str[1] # "@"
            /\ \A k \in 1..Len(out.str) : out.str[k] # "/"
    /\ (out.fn = "again" /\ SingleAt) => out.str = arg

C18_Witness ==
    /\ src = <<"@", "a", "/", "a">>
    /\ out.fn = "again"
    /\ arg = <<"a", "-", "a">>
    /\ out.str = <<"a", "-", "a">>

====
